---- MODULE Spec2Model ----
(***************************************************************************)
(* Model of src/exc2/plot.py: the Animator (frame generator, start/stop    *)
(* buttons, scrub slider), Plot.save_figure and the command line entry     *)
(* point main.                                                             *)
(*                                                                         *)
(* The host toolkit's event loop is abstracted as follows: a timer tick    *)
(* that arrives while the event source is running performs one next() on   *)
(* the generator frame_updater() and hands the frame to update_slider; a   *)
(* button click calls the handler registered with on_clicked; a slider     *)
(* drag sets slider.val and calls the handler registered with on_changed.  *)
(* All handlers run to completion on the one UI thread.                    *)
(***************************************************************************)
EXTENDS Integers, Sequences, FiniteSets, TLC

\* ------------------------------------------------------------------ bounds
\* Axis bounds handed to Plot/Animator range over -MaxDim..MaxDim.
MaxDim == 2
\* slider.val is a float: it is kept as a numerator over SliderDen.
SliderDen == 2

VARIABLES
    x_min, x_max,   \* Animator.x_min / x_max (= Plot.x_min / x_max)
    i,              \* Animator.i, the frame index
    runs,           \* Animator.runs
    timer,          \* event_source is running
    gen,            \* position of the generator frame_updater()
    val,            \* slider.val, as a numerator over SliderDen
    drawn,          \* data of Plot.point: <<>> or <<first x, last x, denominator>>
    shown,          \* plt.show() has been entered (the window exists)
    yielded,        \* history: <<>> or <<last frame yielded by frame_updater>>
    frameBit,       \* history: flips at every frame yielded
    halted,         \* history: a frame >= x_max was yielded and start not invoked since
    ev,             \* history: the last event handled
    scrubbed,       \* history: the slider has been dragged
    ended,          \* history: a frame >= x_max has been yielded
    resumed,        \* history: a start click has resumed a stopped animation
    quiet,          \* the user has stopped interacting with the window
    plot_n,         \* Plot.n, the click counter of the grid button
    gridOn,         \* the axes show the grid
    gridClicks,     \* history: number of clicks on the grid button
    dir,            \* the working directory: a set of file names
    written,        \* <<>> or <<name handed to plt.savefig by the last save>>
    saveErr,        \* exception raised by the last save_figure, or "none"
    dir0,           \* history: the directory before the first save
    nsaves,         \* history: number of save_figure invocations
    argv,           \* sys.argv
    pc,             \* position in main
    exc,            \* exception in flight or handled in main, or "none"
    out,            \* lines printed to standard output
    window,         \* plt.show() was reached from main
    curve           \* <<>> or <<colour of the line drawn by the chosen mode>>

animVars == <<x_min, x_max, i, runs, timer, gen, val, drawn, shown,
              yielded, frameBit, halted, ev, scrubbed, ended, resumed, quiet>>
gridVars == <<plot_n, gridOn, gridClicks>>
saveVars == <<dir, written, saveErr, dir0, nsaves>>
mainVars == <<argv, pc, exc, out, window, curve>>
vars == <<animVars, saveVars, mainVars, gridVars>>

\* ------------------------------------------------------------ pure helpers
Abs(n) == IF n < 0 THEN -n ELSE n

\* Python int() of a float: truncation toward zero. v is a numerator over SliderDen.
\* (IntOfFloor: a faulty variant that rounds toward minus infinity.)
IntOfFloor(v) == v \div SliderDen
IntOf(v) == IF v >= 0 THEN v \div SliderDen ELSE -((-v) \div SliderDen)

\* np.linspace(a, b, num)[k], as a numerator over (num - 1); num >= 2.
LinspaceAt(a, b, num, k) == a * (num - 1) + k * (b - a)

\* The Animator object as a record, so that handlers compose.
Self == [i |-> i, runs |-> runs, timer |-> timer, gen |-> gen, val |-> val,
         drawn |-> drawn]

Assign(s) ==
    /\ i' = s.i
    /\ runs' = s.runs
    /\ timer' = s.timer
    /\ gen' = s.gen
    /\ val' = s.val
    /\ drawn' = s.drawn

\* ------------------------------------------------------------- the methods
\* Plot.plot_function(i): x_values = linspace(x_min, i, abs(i*100)+2000);
\* point.set_data(x_values, ...). The rendered x-range is first..last sample.
\* (plot_function_bad: a faulty variant that always draws up to x_max.)
plot_function_bad(s, k) ==
    LET num == Abs(k * 100) + 2000
    IN [s EXCEPT !.drawn = <<LinspaceAt(x_min, x_max, num, 0),
                             LinspaceAt(x_min, x_max, num, num - 1), num - 1>>]
plot_function(s, k) ==
    LET num == Abs(k * 100) + 2000
    IN [s EXCEPT !.drawn = <<LinspaceAt(x_min, k, num, 0),
                             LinspaceAt(x_min, k, num, num - 1), num - 1>>]

\* Animator.set_pos: self.i = int(self.slider.val); self.plot_function(self.i)
set_pos(s) ==
    LET k == IntOf(s.val)
    IN plot_function([s EXCEPT !.i = k], k)

\* Animator.update_slider(i): self.slider.set_val(i), which stores the value
\* and calls the on_changed handler set_pos.
update_slider(s, f) == set_pos([s EXCEPT !.val = f * SliderDen])

\* Animator.stop: self.runs = False; self.event_source.stop()
\* (stop_bad: a faulty variant that leaves the event source running.)
stop_bad(s) == [s EXCEPT !.runs = FALSE]
stop(s) == [s EXCEPT !.runs = FALSE, !.timer = FALSE]

\* Animator.start
\* (start_bad: a faulty variant that rewinds to x_min whenever it resumes.)
start_bad(s) ==
    IF s.i < x_max THEN [s EXCEPT !.runs = TRUE, !.timer = TRUE, !.i = x_min]
    ELSE IF s.i = x_max THEN [s EXCEPT !.i = x_min] ELSE s
start(s) ==
    LET s1 == IF s.i < x_max THEN [s EXCEPT !.runs = TRUE, !.timer = TRUE] ELSE s
    IN IF s1.i = x_max THEN [s1 EXCEPT !.i = x_min] ELSE s1

\* One next() on the generator frame_updater(). Result: the object after the
\* generator has run to its next yield (or has returned), and the frame
\* yielded (<<>> when next() raises StopIteration).
\* (frame_updater_loop: a faulty variant that wraps around to x_min at the
\* end instead of stopping.)
frame_updater_loop(s) ==
    LET s1 == IF s.gen = "suspended" THEN [s EXCEPT !.i = s.i + 1] ELSE s
    IN IF s.gen = "exhausted" THEN [self |-> s, frame |-> <<>>]
       ELSE IF ~s1.runs THEN [self |-> [s1 EXCEPT !.gen = "exhausted"], frame |-> <<>>]
       ELSE LET s2 == IF s1.i >= x_max THEN [s1 EXCEPT !.i = x_min] ELSE s1
            IN [self |-> [s2 EXCEPT !.gen = "suspended"], frame |-> <<s2.i>>]
frame_updater(s) ==
    LET s1 == IF s.gen = "suspended" THEN [s EXCEPT !.i = s.i + 1] ELSE s
    IN IF s.gen = "exhausted" THEN [self |-> s, frame |-> <<>>]
       ELSE IF ~s1.runs THEN [self |-> [s1 EXCEPT !.gen = "exhausted"], frame |-> <<>>]
       ELSE LET s2 == IF s1.i >= x_max THEN stop(s1) ELSE s1
            IN [self |-> [s2 EXCEPT !.gen = "suspended"], frame |-> <<s2.i>>]

\* ------------------------------------------------------------------ events
\* Animator.__init__ as called from Plot.live_animate.
InitAnim ==
    /\ x_min \in -MaxDim .. MaxDim
    /\ x_max \in -MaxDim .. MaxDim
    /\ x_min < x_max
    /\ i = x_min
    /\ runs = TRUE
    /\ timer = FALSE
    /\ gen = "created"
    /\ val = x_min * SliderDen
    /\ drawn = <<>>
    /\ shown = FALSE
    /\ yielded = <<>>
    /\ frameBit = FALSE
    /\ halted = FALSE
    /\ ev = "init"
    /\ scrubbed = FALSE
    /\ ended = FALSE
    /\ resumed = FALSE
    /\ quiet = FALSE

\* plt.show() in live_animate: the window is drawn and the animation's event
\* source starts.
Show ==
    /\ ~shown
    /\ shown' = TRUE
    /\ timer' = TRUE
    /\ ev' = "show"
    /\ UNCHANGED <<x_min, x_max, i, runs, gen, val, drawn, yielded, frameBit, halted,
                   scrubbed, ended, resumed, quiet>>
    /\ UNCHANGED <<saveVars, mainVars, gridVars>>

\* A timer tick: next(frame_updater) and, if a frame came, update_slider(frame).
Tick ==
    /\ shown /\ timer
    /\ LET r == frame_updater(Self)
       IN IF r.frame = <<>>
          THEN /\ Assign(r.self)
               /\ ev' = "stopiteration"
               /\ UNCHANGED <<yielded, frameBit, halted, ended>>
          ELSE /\ Assign(update_slider(r.self, r.frame[1]))
               /\ yielded' = r.frame
               /\ frameBit' = ~frameBit
               /\ halted' = (halted \/ r.frame[1] >= x_max)
               /\ ended' = (ended \/ r.frame[1] >= x_max)
               /\ ev' = "tick"
    /\ UNCHANGED <<x_min, x_max, shown, scrubbed, resumed, quiet>>
    /\ UNCHANGED <<saveVars, mainVars, gridVars>>

\* A click on the start button.
StartClick ==
    /\ shown
    /\ Assign(start(Self))
    /\ halted' = FALSE
    /\ ev' = "start"
    /\ resumed' = (resumed \/ (~runs /\ start(Self).runs))
    /\ UNCHANGED <<x_min, x_max, shown, yielded, frameBit, scrubbed, ended, quiet>>
    /\ UNCHANGED <<saveVars, mainVars, gridVars>>

\* A click on the stop button.
StopClick ==
    /\ shown
    /\ Assign(stop(Self))
    /\ ev' = "stop"
    /\ UNCHANGED <<x_min, x_max, shown, yielded, frameBit, halted, scrubbed, ended, resumed, quiet>>
    /\ UNCHANGED <<saveVars, mainVars, gridVars>>

\* The user drags the slider to v (within [x_min, x_max]): set_pos runs.
Scrub ==
    /\ shown
    /\ \E v \in (x_min * SliderDen) .. (x_max * SliderDen) :
          Assign(set_pos([Self EXCEPT !.val = v]))
    /\ ev' = "scrub"
    /\ scrubbed' = TRUE
    /\ UNCHANGED <<x_min, x_max, shown, yielded, frameBit, halted, ended, resumed, quiet>>
    /\ UNCHANGED <<saveVars, mainVars, gridVars>>

\* The user stops interacting: from here on only timer ticks occur.
UserLeaves ==
    /\ shown /\ ~quiet
    /\ quiet' = TRUE
    /\ ev' = "leave"
    /\ UNCHANGED <<x_min, x_max, i, runs, timer, gen, val, drawn, shown,
                   yielded, frameBit, halted, scrubbed, ended, resumed>>
    /\ UNCHANGED <<saveVars, mainVars, gridVars>>

\* A user event while the user still interacts.
UserEvent == ~quiet /\ (StartClick \/ StopClick \/ Scrub)

\* -------------------------------------------------------------------- grid
\* Cap on the number of clicks on the grid button in a run.
MaxGridClicks == 3

\* Plot.add_grid_button: self.n = 1; a new axes shows no grid.
InitGrid == plot_n = 1 /\ gridOn = FALSE /\ gridClicks = 0

\* The argument Plot.grid hands to ax.grid: True if self.n % 2 else False.
\* (GridArgBad: a faulty variant with the two branches swapped.)
GridArgBad(k) == k % 2 = 0
GridArg(k) == k % 2 # 0

\* Plot.grid, the handler of the grid button.
grid ==
    /\ shown
    /\ plot_n <= MaxGridClicks
    /\ gridOn' = GridArg(plot_n)
    /\ plot_n' = plot_n + 1
    /\ gridClicks' = gridClicks + 1
    /\ UNCHANGED <<animVars, saveVars, mainVars>>

\* ------------------------------------------------------------- save_figure
\* File names are sequences of one-character strings.
\* Largest N of an initial directory figure1.png .. figureN.png.
MaxExisting == 10
\* Cap on the number of save_figure invocations in a run.
MaxSaves == 11

FigurePrefix == <<"f", "i", "g", "u", "r", "e">>
PngSuffix == <<".", "p", "n", "g">>
DigitChars == <<"0", "1", "2", "3", "4", "5", "6", "7", "8", "9">>

\* Python str(n) for n >= 0.
RECURSIVE Str(_)
Str(n) == IF n < 10 THEN <<DigitChars[n + 1]>>
          ELSE Str(n \div 10) \o <<DigitChars[(n % 10) + 1]>>

IsDigit(c) == \E d \in 1 .. 10 : DigitChars[d] = c

\* Python int(c) for a one-character string c that is a decimal digit.
IntOfChar(c) == (CHOOSE d \in 1 .. 10 : DigitChars[d] = c) - 1

\* Python slice name[0:n]: clipped to the length of name.
Slice0(name, n) == SubSeq(name, 1, IF Len(name) < n THEN Len(name) ELSE n)

SetMax(S) == CHOOSE m \in S : \A k \in S : k <= m

FigureName(n) == FigurePrefix \o Str(n) \o PngSuffix

\* The directory holding exactly figure1.png .. figureN.png.
Figures(n) == {FigureName(k) : k \in 1 .. n}

\* Other names a working directory may hold.
OtherFiles == { <<"p", "l", "o", "t", ".", "p", "y">>,
                <<"f", "i", "g">>,
                <<"f", "i", "g", "u", "r", "e">>,
                <<"f", "i", "g", "u", "r", "e", "_", "a", ".", "p", "n", "g">> }

\* The names of file_names that pass the test file_name[0:6] == "figure".
\* (MatchingLenient: a faulty variant that skips the names it cannot parse.)
MatchingLenient(d) ==
    {f \in d : Slice0(f, 6) = FigurePrefix /\ Len(f) >= 7 /\ IsDigit(f[7])}
Matching(d) == {f \in d : Slice0(f, 6) = FigurePrefix}

\* The exception indexes.append(int(file_name[6])) raises for a matching name:
\* IndexError when there is no 7th character, ValueError when it is no digit.
AppendError(f) ==
    IF Len(f) < 7 THEN "IndexError"
    ELSE IF ~IsDigit(f[7]) THEN "ValueError"
    ELSE "none"

\* The list indexes (as a set: only its emptiness and its maximum are used).
Indexes(d) == {IntOfChar(f[7]) : f \in Matching(d)}

\* The name handed to plt.savefig.
SaveName(d) ==
    IF Indexes(d) = {} THEN FigurePrefix \o <<"1">> \o PngSuffix
    ELSE FigurePrefix \o Str(SetMax(Indexes(d)) + 1) \o PngSuffix

InitSave ==
    /\ \E n \in 0 .. MaxExisting : \E extra \in SUBSET OtherFiles :
          dir = Figures(n) \cup extra
    /\ dir0 = dir
    /\ written = <<>>
    /\ saveErr = "none"
    /\ nsaves = 0

\* Plot.save_figure, the handler of the save button. os.listdir returns the
\* names in arbitrary order, so the loop raises for any one of the names it
\* cannot parse; otherwise plt.savefig creates or overwrites the file.
save_figure ==
    /\ nsaves < MaxSaves
    /\ nsaves' = nsaves + 1
    /\ LET failing == {f \in Matching(dir) : AppendError(f) # "none"}
       IN IF failing # {}
          THEN /\ \E f \in failing : saveErr' = AppendError(f)
               /\ written' = <<>>
               /\ dir' = dir
          ELSE /\ saveErr' = "none"
               /\ written' = <<SaveName(dir)>>
               /\ dir' = dir \cup {SaveName(dir)}
    /\ UNCHANGED <<dir0, animVars, mainVars, gridVars>>

\* -------------------------------------------------------------------- main
\* sys.argv holds the script name and up to MaxArgs arguments.
MaxArgs == 2

ScriptName == "plot.py"
\* Words the user may type as an argument.
ArgWords == {"simple", "live", "fast", "blue", "red", "nocolor"}
\* The keys of the dict functions in main.
Modes == {"simple", "live"}
\* Colour names the plotting library accepts (those the program itself uses).
ValidColors == {"blue", "green", "red"}
UsageMessage == "Choose \"live\" or \"simple\" as function and a valid matplotlib-color."
\* The exception kinds the except clause of main names.
Caught == {"KeyError", "ValueError", "IndexError"}

\* All sequences over S of length at most n.
RECURSIVE SeqsUpTo(_, _)
SeqsUpTo(S, n) ==
    IF n = 0 THEN {<<>>}
    ELSE LET shorter == SeqsUpTo(S, n - 1)
         IN shorter \cup {Append(s, w) : s \in shorter, w \in S}

\* The process has been started; main has not run yet.
InitMain ==
    /\ argv \in {<<ScriptName>> \o a : a \in SeqsUpTo(ArgWords, MaxArgs)}
    /\ pc = "main"
    /\ exc = "none"
    /\ out = <<>>
    /\ window = FALSE
    /\ curve = <<>>

\* main up to the call: plot = Plot(...); functions[sys.argv[1]](h, sys.argv[2]).
\* sys.argv[k] is argv[k + 1]. The subscript sys.argv[1] is evaluated first,
\* then the dict lookup, then the argument sys.argv[2].
main ==
    /\ pc = "main"
    /\ IF Len(argv) < 2 THEN exc' = "IndexError" /\ pc' = "except"
       ELSE IF argv[2] \notin Modes THEN exc' = "KeyError" /\ pc' = "except"
       ELSE IF Len(argv) < 3 THEN exc' = "IndexError" /\ pc' = "except"
       ELSE exc' = "none" /\ pc' = argv[2]
    /\ UNCHANGED <<argv, out, window, curve, animVars, saveVars, gridVars>>

\* Plot.simple_plot(h, sys.argv[2]): ax.plot(..., color=line_color) raises
\* ValueError for an invalid colour; otherwise the curve is drawn, the colour
\* bar is added and plt.show() is reached.
\* (simple_plot_bad: a faulty variant that opens the window before plotting.)
simple_plot_bad ==
    /\ pc = "simple"
    /\ window' = TRUE
    /\ IF argv[3] \in ValidColors
       THEN curve' = <<argv[3]>> /\ pc' = "done" /\ exc' = exc
       ELSE curve' = curve /\ pc' = "except" /\ exc' = "ValueError"
    /\ UNCHANGED <<argv, out, animVars, saveVars, gridVars>>
simple_plot ==
    /\ pc = "simple"
    /\ IF argv[3] \in ValidColors
       THEN curve' = <<argv[3]>> /\ window' = TRUE /\ pc' = "done" /\ exc' = exc
       ELSE curve' = curve /\ window' = window /\ pc' = "except" /\ exc' = "ValueError"
    /\ UNCHANGED <<argv, out, animVars, saveVars, gridVars>>

\* Plot.live_animate(h, sys.argv[2]): ax.plot([], [], color=line_color) raises
\* ValueError for an invalid colour; otherwise the Animator is built and
\* plt.show() is reached.
live_animate ==
    /\ pc = "live"
    /\ IF argv[3] \in ValidColors
       THEN curve' = <<argv[3]>> /\ window' = TRUE /\ pc' = "done" /\ exc' = exc
       ELSE curve' = curve /\ window' = window /\ pc' = "except" /\ exc' = "ValueError"
    /\ UNCHANGED <<argv, out, animVars, saveVars, gridVars>>

\* except (KeyError, ValueError, IndexError): print(...)
main_except ==
    /\ pc = "except"
    /\ IF exc \in Caught
       THEN out' = Append(out, UsageMessage) /\ pc' = "done"
       ELSE out' = out /\ pc' = "crashed"
    /\ UNCHANGED <<argv, exc, window, curve, animVars, saveVars, gridVars>>

\* ---------------------------------------------------------- specifications
\* Values of the parts a specification does not exercise.
AnimIdle ==
    /\ x_min = 0 /\ x_max = 0 /\ i = 0 /\ runs = FALSE /\ timer = FALSE
    /\ gen = "created" /\ val = 0 /\ drawn = <<>> /\ shown = FALSE
    /\ yielded = <<>> /\ frameBit = FALSE /\ halted = FALSE /\ ev = "init"
    /\ scrubbed = FALSE /\ ended = FALSE /\ resumed = FALSE /\ quiet = FALSE

SaveIdle ==
    /\ dir = {} /\ dir0 = {} /\ written = <<>> /\ saveErr = "none" /\ nsaves = 0

MainIdle ==
    /\ argv = <<>> /\ pc = "idle" /\ exc = "none" /\ out = <<>>
    /\ window = FALSE /\ curve = <<>>

\* The live animation: the Animator and its events.
Init == InitAnim /\ InitGrid /\ SaveIdle /\ MainIdle
Next == Show \/ Tick \/ StartClick \/ StopClick \/ Scrub \/ grid
Spec == Init /\ [][Next]_vars

\* The live animation with a user who eventually leaves it alone. The timer
\* of the event source fires every 15 ms for as long as it is running, so a
\* tick that stays enabled is eventually taken.
\* TickFairness is that weak fairness of Tick with ENABLED <<Tick>>_vars written
\* out as shown /\ timer (TickEnabledWhenTimerRuns is the invariant that the
\* two agree; SpecQuietWF is the same specification in the WF form).
NextQuiet == Show \/ Tick \/ UserEvent \/ UserLeaves
TickFairness == <>[](shown /\ timer) => []<><<Tick>>_vars
SpecQuiet == Init /\ [][NextQuiet]_vars /\ TickFairness
SpecQuietWF == Init /\ [][NextQuiet]_vars /\ WF_vars(Tick)
TickEnabledWhenTimerRuns == (ENABLED <<Tick>>_vars) <=> (shown /\ timer)

\* The save button.
InitSaveSpec == InitSave /\ AnimIdle /\ InitGrid /\ MainIdle
NextSave == save_figure
SpecSave == InitSaveSpec /\ [][NextSave]_vars

\* The entry point.
InitMainSpec == InitMain /\ AnimIdle /\ InitGrid /\ SaveIdle
NextMain == main \/ simple_plot \/ live_animate \/ main_except
SpecMain == InitMainSpec /\ [][NextMain]_vars

\* ------------------------------------------------------------------ claims
\* C1: the frame source never yields a value greater than x_max.
C1_YieldWithinMax == yielded # <<>> => yielded[1] <= x_max

\* C2: in every reachable state the frame index is an integer within
\* [x_min, x_max].
C2_IndexInBounds == i \in Int /\ x_min <= i /\ i <= x_max

\* The animation has run to the end and halted: frame_updater yielded a frame
\* at or past x_max and stopped, start has not been invoked since, and the
\* index is still at the end.
Completed == halted /\ i >= x_max /\ ~runs /\ ~timer

\* C3: when the directory holds exactly figure1.png .. figureN.png (N >= 1),
\* save_figure writes figure(N+1).png.
C3_SaveWritesNext ==
    \A n \in 1 .. MaxExisting :
        (dir0 = Figures(n) /\ nsaves = 1) =>
            (written = <<FigureName(n + 1)>> /\ dir = Figures(n + 1))

\* C4: starting from an empty directory, k consecutive saves leave k distinct
\* files: no save writes to a name that already existed.
C4_SavesAreDistinct == (dir0 = {} /\ saveErr = "none") => Cardinality(dir) = nsaves

\* C5: invoking start in the state reached when the animation has run to the
\* end and halted sets the frame index to x_min.
C5_RestartResets == [][(Completed /\ StartClick) => i' = x_min]_vars

\* C6: a single start after the animation has reached the end replays it:
\* the running flag is true, the timer is started, and the next frame the
\* frame source yields is x_min.
C6_SingleStartReplays ==
    [][(Completed /\ StartClick) =>
          (runs' /\ timer' /\ (frame_updater(Self).frame = <<x_min>>)')]_vars

\* C7: once the frame source yields a frame >= x_max the running flag is false
\* and the timer is stopped, and no further frame is yielded until start is
\* invoked.
C7_HaltsAtMax ==
    /\ [](halted => (~runs /\ ~timer))
    /\ [][ /\ ((frameBit' # frameBit /\ yielded'[1] >= x_max) =>
                   (halted' /\ ~runs' /\ ~timer'))
           /\ (halted => frameBit' = frameBit) ]_vars

C7_Witness ==
    /\ halted /\ ev = "scrub" /\ ~runs /\ ~timer
    /\ yielded = <<x_max>> /\ i < x_max

\* C8: in every reachable state where the frame index equals x_max the running
\* flag is false and the timer is not running.
C8_StoppedAtMax == i = x_max => (~runs /\ ~timer)

\* C9: after a frame f in [x_min, x_max] is yielded, it is forwarded unchanged
\* through update_slider, set_val and set_pos, and the curve drawn spans
\* exactly [x_min, f].
C9_FrameRange ==
    (ev = "tick" /\ yielded # <<>> /\ yielded[1] >= x_min /\ yielded[1] <= x_max) =>
        /\ val = yielded[1] * SliderDen
        /\ i = yielded[1]
        /\ drawn # <<>>
        /\ drawn[1] = x_min * drawn[3]
        /\ drawn[2] = yielded[1] * drawn[3]

C9_Witness ==
    /\ ev = "tick" /\ yielded # <<>> /\ x_min < yielded[1] /\ yielded[1] < x_max
    /\ drawn = <<x_min * drawn[3], yielded[1] * drawn[3], drawn[3]>>

\* The command line names no mode of the program, lacks an argument, or names
\* an invalid colour.
BadCommandLine ==
    \/ Len(argv) < 3
    \/ argv[2] \notin Modes
    \/ argv[3] \notin ValidColors

\* C10: with an unrecognized mode, a missing argument or an invalid colour no
\* curve is drawn and plt.show is never reached, and when main has finished it
\* has printed the one usage message, whichever of KeyError, IndexError and
\* ValueError was raised.
C10_UsageOnBadArgs ==
    (pc # "idle" /\ BadCommandLine) =>
        /\ ~window
        /\ curve = <<>>
        /\ pc # "crashed"
        /\ (pc = "done" => (exc \in Caught /\ out = <<UsageMessage>>))

C10_Witness ==
    /\ pc = "done" /\ exc = "ValueError" /\ out = <<UsageMessage>>
    /\ ~window /\ argv[2] = "simple"

\* C11: scrubbing to a value v sets the frame index to the integer part of v
\* (v with its fraction dropped) and redraws the curve up to that index,
\* whether the animation runs or not, and leaves the running flag and the
\* timer as they were.
C11_ScrubSetsIndex ==
    [][Scrub =>
          /\ i' * val' >= 0
          /\ Abs(i') * SliderDen <= Abs(val')
          /\ Abs(val') < (Abs(i') + 1) * SliderDen
          /\ drawn' # <<>>
          /\ drawn'[1] = x_min * drawn'[3]
          /\ drawn'[2] = i' * drawn'[3]
          /\ runs' = runs
          /\ timer' = timer]_vars

C11_Witness ==
    /\ ev = "scrub" /\ runs /\ timer
    /\ val < 0 /\ val % SliderDen # 0 /\ i * SliderDen > val
    /\ drawn # <<>> /\ drawn[2] = i * drawn[3]

\* C12: in every state between events, once the first frame has been drawn,
\* the upper end of the rendered x-range and the slider position both equal
\* the frame index.
C12_IndexIsDrawnPosition ==
    drawn # <<>> => (drawn[2] = i * drawn[3] /\ val = i * SliderDen)

\* The part of C12 about the rendered curve alone.
C12_DrawnUpToIndex == drawn # <<>> => drawn[2] = i * drawn[3]

\* C13: in a run of timer ticks and stop/start clicks without slider scrubs,
\* up to completion, the frames yielded are x_min, x_min + 1, ..., x_max in
\* that order, each once: the first frame is x_min, every later frame is the
\* previous one plus one (also across a pause), and none exceeds x_max.
C13_FramesInOrder ==
    [][(frameBit' # frameBit /\ ~scrubbed' /\ ~ended) =>
          /\ yielded' = (IF yielded = <<>> THEN <<x_min>> ELSE <<yielded[1] + 1>>)
          /\ yielded'[1] <= x_max
          /\ ended' = (yielded'[1] = x_max)]_vars

C13_Witness ==
    /\ ~scrubbed /\ resumed /\ ended /\ ev = "tick"
    /\ yielded = <<x_max>> /\ x_max >= x_min + 2

\* C14: in every reachable state where the animation is stopped, at most two
\* consecutive start invocations lead to a state where the running flag is
\* true and the timer is running.
C14_StartResumes ==
    (shown /\ ~runs /\ ~timer) =>
        LET s1 == start(Self)
            s2 == start(s1)
        IN (s1.runs /\ s1.timer) \/ (s2.runs /\ s2.timer)

\* C15: once the animation has been started, the running flag is true exactly
\* when the timer is running; so no tick resumes frame_updater with the flag
\* false, and the generator is never exhausted.
C15_FlagMatchesTimer ==
    shown => ((runs <=> timer) /\ gen # "exhausted" /\ ev # "stopiteration")

C15_Witness ==
    /\ shown /\ ev = "stop" /\ ~runs /\ ~timer
    /\ gen = "suspended" /\ i < x_max

\* C16: from any state in which the animation is running, if the timer keeps
\* ticking and no further user event occurs, the animation eventually halts:
\* running flag false and timer stopped.
C16_EventuallyHalts == (quiet /\ runs /\ timer) ~> (~runs /\ ~timer)

C16_Witness ==
    /\ quiet /\ ev = "tick" /\ halted /\ ~runs /\ ~timer
    /\ yielded # <<>> /\ yielded[1] >= x_max

\* A name that begins with "figure" and has no 7th character.
TooShort(f) == Len(f) = 6 /\ SubSeq(f, 1, 6) = FigurePrefix
\* A name that begins with "figure" and whose 7th character is no decimal digit.
NoDigit(f) ==
    /\ Len(f) >= 7 /\ SubSeq(f, 1, 6) = FigurePrefix
    /\ f[7] \notin {"0", "1", "2", "3", "4", "5", "6", "7", "8", "9"}

\* C17: when the directory holds a name that begins with "figure" and whose
\* 7th character is missing or is no decimal digit, save_figure raises
\* IndexError or ValueError (IndexError only for a missing character,
\* ValueError only for a non-digit) before any file is written: no file is
\* created or overwritten.
C17_SaveFailsUntouched ==
    (nsaves > 0 /\ \E f \in dir0 : TooShort(f) \/ NoDigit(f)) =>
        /\ dir = dir0
        /\ written = <<>>
        /\ saveErr \in {"IndexError", "ValueError"}
        /\ (saveErr = "IndexError" => \E f \in dir0 : TooShort(f))
        /\ (saveErr = "ValueError" => \E f \in dir0 : NoDigit(f))

C17_Witness ==
    /\ nsaves > 0 /\ saveErr = "ValueError" /\ dir = dir0 /\ written = <<>>
    /\ Figures(2) \subseteq dir
    /\ \E f \in dir : NoDigit(f)
    /\ ~ \E f \in dir : TooShort(f)

\* C18: the grid button toggles, starting from off: after k clicks, in any
\* interleaving with the other events, the grid is shown exactly when k is odd.
C18_GridToggles == gridOn <=> (gridClicks % 2 = 1)

C18_Witness ==
    /\ gridClicks = 3 /\ gridOn /\ ev = "scrub" /\ yielded # <<>>

====
